---- MODULE Spec2Model ----
(***************************************************************************)
(* Model of src/src/main.rs: the tool that resolves the dependencies of a  *)
(* Cargo manifest to the compiled artifacts in target/release/deps and     *)
(* prints the matching `--extern` options.                                 *)
(*                                                                         *)
(* Strings are sequences of one-character strings, so that starts_with,    *)
(* ends_with, contains, trim, replace and slicing are computed as the      *)
(* standard library computes them.  A Rust value of type Fallible<T> is a  *)
(* record tagged "Ok" or "Err"; a panic (panic!, unreachable!, a slice out *)
(* of range) is a record tagged "Panic" that every caller passes on.       *)
(***************************************************************************)
EXTENDS Naturals, Sequences, FiniteSets

VARIABLES
    manifest,      \* run: the dependencies of the current package, in order
    format,        \* run: Opt.format
    deps_path,     \* the directory target/release/deps: its kind and entries
    parsed,        \* run: the Dependency values collected so far
    pc,            \* the position of the specification's program
    run_result,    \* run: what run() returned (or the panic that ended it)
    stdout,        \* run: the lines printed
    fs_log,        \* run: the filesystem accesses made so far, in order
    locator,       \* scan / match: the Locator under test
    last,          \* scan: what the latest find_library_path call returned
    outcomes,      \* scan: the results of all calls on this directory
    calls,         \* scan: the number of calls made
    package_name,  \* parse_normal: its first argument
    version_req,   \* parse_normal: its second argument
    content,       \* matches: its argument
    fn_result      \* parse_normal / matches: the value returned

vars == <<manifest, format, deps_path, parsed, pc, run_result, stdout, fs_log,
          locator, last, outcomes, calls, package_name, version_req, content,
          fn_result>>

-----------------------------------------------------------------------------
(* Bounds of the model *)

MaxEntries == 3
MaxDeps == 2
MaxReqLen == 4
MaxFragments == 3
MaxCalls == 2

-----------------------------------------------------------------------------
(* Values *)

Ok(v) == [tag |-> "Ok", val |-> v]
Err(e) == [tag |-> "Err", err |-> e]
Panic(m) == [tag |-> "Panic", msg |-> m]
None == [tag |-> "None"]
Some(v) == [tag |-> "Some", val |-> v]
Idle == [tag |-> "Idle"]

-----------------------------------------------------------------------------
(* str *)

StartsWith(s, p) == Len(p) <= Len(s) /\ SubSeq(s, 1, Len(p)) = p

EndsWith(s, p) == Len(p) <= Len(s) /\ SubSeq(s, Len(s) - Len(p) + 1, Len(s)) = p

Contains(s, p) ==
    \E i \in 0..Len(s) : i + Len(p) <= Len(s) /\ SubSeq(s, i + 1, i + Len(p)) = p

Replace(s, from, to) == [i \in 1..Len(s) |-> IF s[i] = from THEN to ELSE s[i]]

\* char::is_whitespace, on the characters the model draws from
IsWhitespace(c) == c \in {" ", "\t", "\n"}

RECURSIVE TrimStart(_)
TrimStart(s) ==
    IF s # <<>> /\ IsWhitespace(Head(s)) THEN TrimStart(Tail(s)) ELSE s

RECURSIVE TrimEnd(_)
TrimEnd(s) ==
    IF s # <<>> /\ IsWhitespace(s[Len(s)])
    THEN TrimEnd(SubSeq(s, 1, Len(s) - 1))
    ELSE s

TrimStartOnly(s) == TrimStart(s)
Trim(s) == TrimEnd(TrimStart(s))

-----------------------------------------------------------------------------
(* Locator *)

LocatorVersion(name, version) ==
    [variant |-> "Version", package_name |-> name, version |-> version]

LocatorGit(name, revision) ==
    [variant |-> "Git", package_name |-> name, revision |-> revision]

PackageName(loc) == loc.package_name

CrateName(loc) == Replace(PackageName(loc), "-", "_")

\* &revision[0..7]: a slice past the end of the string panics.  (The strings of
\* the model are ASCII: byte 7 is always a character boundary.)
RevisionPrefix(revision) ==
    IF Len(revision) < 7
    THEN Panic("byte index 7 is out of bounds")
    ELSE Ok(SubSeq(revision, 1, 7))

SearchPatterns(loc) ==
    IF loc.variant = "Version"
    THEN Ok(<< <<"/">> \o loc.package_name \o <<"-">> \o loc.version \o <<"/">> >>)
    ELSE LET prefix == RevisionPrefix(loc.revision)
         IN  IF prefix.tag = "Panic"
             THEN prefix
             ELSE Ok(<< <<"/">> \o loc.package_name,
                        <<"/">> \o prefix.val \o <<"/">> >>)

MatchesAny(loc, text) ==
    LET pats == SearchPatterns(loc)
    IN  IF pats.tag = "Panic"
        THEN pats
        ELSE Ok(\E i \in 1..Len(pats.val) : Contains(text, pats.val[i]))
Matches(loc, text) ==
    LET pats == SearchPatterns(loc)
    IN  IF pats.tag = "Panic"
        THEN pats
        ELSE Ok(\A i \in 1..Len(pats.val) : Contains(text, pats.val[i]))

-----------------------------------------------------------------------------
(* Dependency::parse_git, Dependency::parse_normal *)

ParseGit(name, git_ref) ==
    IF git_ref.kind = "Rev"
    THEN Ok(LocatorGit(name, git_ref.value))
    ELSE IF git_ref.kind = "Tag"
    THEN Panic("Tagged git source is not supported.")
    ELSE Panic("Branch git source is not supported.")

ErrExactVersion == [kind |-> "use exact match version requirement"]

ParseNormal(name, req) ==
    IF ~StartsWith(req, <<"=">>)
    THEN Err(ErrExactVersion)
    ELSE Ok(LocatorVersion(name, Trim(SubSeq(req, 2, Len(req)))))

-----------------------------------------------------------------------------
(* The filesystem: Path, the entries of deps_path                          *)
(*                                                                         *)
(* deps_path is [kind, entries]: kind is "missing", "file" or "dir", and   *)
(* entries is the directory's content in the order read_dir yields it.  An *)
(* entry is [name, is_dir, readable, text]: name may hold InvalidByte (a   *)
(* byte sequence that is not UTF-8), readable says whether read_to_string  *)
(* succeeds on it, text is what it then returns.                           *)

InvalidByte == "#"

DepsDir == <<"/", "t">>

Path(parent, file_name) == [parent |-> parent, file_name |-> file_name]

Display(path) == path.parent \o <<"/">> \o path.file_name

WithFileName(path, file_name) == Path(path.parent, file_name)

\* The index of the last "." of a file name that starts its extension, 0 if
\* the name has no extension (a leading "." starts none).
ExtensionDot(name) ==
    LET dots == {i \in 2..Len(name) : name[i] = "."}
    IN  IF dots = {} THEN 0 ELSE CHOOSE i \in dots : \A j \in dots : j <= i

WithExtensionAppended(path, ext) == Path(path.parent, path.file_name \o <<".">> \o ext)
WithExtension(path, ext) ==
    LET name == path.file_name
        dot == ExtensionDot(name)
        stem == IF dot = 0 THEN name ELSE SubSeq(name, 1, dot - 1)
    IN  Path(path.parent, stem \o <<".">> \o ext)

\* OsStr::to_str
ToStr(name) ==
    IF \E i \in 1..Len(name) : name[i] = InvalidByte THEN None ELSE Some(name)

\* Path::exists on deps_path itself
DirExists(dp) == dp.kind # "missing"

\* Path::exists on a path inside deps_path
Exists(dp, path) ==
    /\ dp.kind = "dir"
    /\ path.parent = DepsDir
    /\ \E i \in 1..Len(dp.entries) : dp.entries[i].name = path.file_name

Access(op, name) == [op |-> op, name |-> name]

ErrIo(what) == [kind |-> "io", what |-> what]
ErrInvalidUtf8 == [kind |-> "file_name has invalid byte for UTF-8"]
ErrNotExist == [kind |-> "dependencies path is not exist."]
ErrNotFoundCrate(loc) ==
    [kind |-> "failed to find appropriate path for", name |-> CrateName(loc)]
ErrNotFound(loc) ==
    [kind |-> "failed to find appropriate path for", name |-> PackageName(loc)]

Returned(result, log) == [result |-> result, log |-> log]

-----------------------------------------------------------------------------
(* Locator::find_library_path *)

\* Lines 150-164: the artifact of a matched candidate.
ArtifactRlibFirst(dp, path, file_name, log) ==
    LET stem == WithFileName(path, <<"l", "i", "b">> \o file_name)
        so == WithExtension(stem, <<"s", "o">>)
        rlib == WithExtension(stem, <<"r", "l", "i", "b">>)
        log1 == Append(log, Access("exists", rlib.file_name))
        log2 == Append(log1, Access("exists", so.file_name))
    IN  IF Exists(dp, rlib) THEN Returned(Ok(rlib), log1)
        ELSE IF Exists(dp, so) THEN Returned(Ok(so), log2)
        ELSE Returned(Panic("The compiled crate must be either '.rlib' or '.so'."), log2)
Artifact(dp, path, file_name, log) ==
    LET stem == WithFileName(path, <<"l", "i", "b">> \o file_name)
        so == WithExtension(stem, <<"s", "o">>)
        rlib == WithExtension(stem, <<"r", "l", "i", "b">>)
        log1 == Append(log, Access("exists", so.file_name))
        log2 == Append(log1, Access("exists", rlib.file_name))
    IN  IF Exists(dp, so) THEN Returned(Ok(so), log1)
        ELSE IF Exists(dp, rlib) THEN Returned(Ok(rlib), log2)
        ELSE Returned(Panic("The compiled crate must be either '.rlib' or '.so'."), log2)

\* Line 143: the filter on the file name.
IsCandidateName(loc, file_name) ==
    /\ StartsWith(file_name, CrateName(loc) \o <<"-">>)
    /\ EndsWith(file_name, <<".", "d">>)

\* Lines 133-166: the loop, from the i-th entry on.  The failures of the
\* iterator itself, of file_type and of to_absolute_from_current_dir are not
\* modelled: the path is absolute already (deps_path comes from target_dir).
RECURSIVE Scan(_, _, _, _)
Scan(loc, dp, i, log) ==
    IF i > Len(dp.entries)
    THEN Returned(Err(ErrNotFound(loc)), log)
    ELSE
    LET file == dp.entries[i]
        log1 == Append(log, Access("file_type", file.name))
        file_name == ToStr(file.name)
        log2 == Append(log1, Access("read_to_string", file.name))
    IN  IF file.is_dir THEN Scan(loc, dp, i + 1, log1)
        ELSE IF file_name.tag = "None" THEN Returned(Err(ErrInvalidUtf8), log1)
        ELSE IF ~IsCandidateName(loc, file_name.val) THEN Scan(loc, dp, i + 1, log1)
        ELSE IF ~file.readable THEN Returned(Err(ErrIo(file.name)), log2)
        ELSE LET m == Matches(loc, file.text)
             IN  IF m.tag = "Panic" THEN Returned(m, log2)
                 ELSE IF m.val
                 THEN Artifact(dp, Path(DepsDir, file_name.val), file_name.val, log2)
                 ELSE Scan(loc, dp, i + 1, log2)

FindLibraryPathSkipFirst(loc, dp) ==
    IF dp.kind # "dir"
    THEN Returned(Err(ErrIo(<<>>)), <<Access("read_dir", <<>>)>>)
    ELSE Scan(loc, dp, 2, <<Access("read_dir", <<>>)>>)
FindLibraryPath(loc, dp) ==
    IF dp.kind # "dir"
    THEN Returned(Err(ErrIo(<<>>)), <<Access("read_dir", <<>>)>>)
    ELSE Scan(loc, dp, 1, <<Access("read_dir", <<>>)>>)

-----------------------------------------------------------------------------
(* Dependency::parse, Dependency::make_compile_option *)

\* A dependency of the manifest, as cargo hands it over: package_name(),
\* source_id().git_reference() and version_req().
Dep(name, git_ref, req) == [package_name |-> name, git_ref |-> git_ref, version_req |-> req]

NoGit == [kind |-> "None", value |-> <<>>]
GitRef(kind, value) == [kind |-> kind, value |-> value]

\* Lines 51-54: the Locator of a dependency.
ParseLocator(dep) ==
    IF dep.git_ref.kind # "None"
    THEN ParseGit(dep.package_name, dep.git_ref)
    ELSE ParseNormal(dep.package_name, dep.version_req)

ParseIdentityFirst(dp, dep) ==
    LET loc == ParseLocator(dep)
        log0 == <<Access("exists", <<>>)>>
    IN  IF loc.tag # "Ok" THEN Returned(loc, <<>>)
        ELSE IF ~DirExists(dp) THEN Returned(Err(ErrNotExist), log0)
        ELSE LET found == FindLibraryPath(loc.val, dp)
             IN  IF found.result.tag # "Ok"
                 THEN Returned(found.result, log0 \o found.log)
                 ELSE Returned(Ok([crate_name |-> CrateName(loc.val),
                                   library_path |-> found.result.val]),
                               log0 \o found.log)
Parse(dp, dep) ==
    LET log0 == <<Access("exists", <<>>)>>
    IN  IF ~DirExists(dp) THEN Returned(Err(ErrNotExist), log0)
        ELSE LET loc == ParseLocator(dep)
             IN  IF loc.tag # "Ok" THEN Returned(loc, log0)
                 ELSE LET found == FindLibraryPath(loc.val, dp)
                      IN  IF found.result.tag # "Ok"
                          THEN Returned(found.result, log0 \o found.log)
                          ELSE Returned(Ok([crate_name |-> CrateName(loc.val),
                                            library_path |-> found.result.val]),
                                        log0 \o found.log)

StrExtern == <<"-", "-", "e", "x", "t", "e", "r", "n">>
StrL == <<"-", "L">>
StrDependency == <<"d", "e", "p", "e", "n", "d", "e", "n", "c", "y", "=">>

MakeCompileOption(d) ==
    <<StrExtern, d.crate_name \o <<"=">> \o Display(d.library_path)>>

RECURSIVE FlatMapOptions(_)
FlatMapOptions(ds) ==
    IF ds = <<>> THEN <<>> ELSE MakeCompileOption(Head(ds)) \o FlatMapOptions(Tail(ds))

\* Lines 213-222: the options of the resolved dependencies, then the search path.
OptionsSearchPathFirst(ds) ==
    <<StrL, StrDependency \o DepsDir>> \o FlatMapOptions(ds)
Options(ds) ==
    FlatMapOptions(ds) \o <<StrL, StrDependency \o DepsDir>>

-----------------------------------------------------------------------------
(* Inputs *)

Range(s) == {s[i] : i \in 1..Len(s)}

\* The strings over alphabet of length at most n
Strs(alphabet, n) == UNION {[1..k -> alphabet] : k \in 0..n}

\* The sequences without repetition of at most n elements of set
SeqsOf(set, n) ==
    {q \in UNION {[1..k -> set] : k \in 0..n} :
        \A i, j \in 1..Len(q) : i # j => q[i] # q[j]}

\* q with its i-th and (i+1)-th elements exchanged
Swap(q, i) ==
    [k \in 1..Len(q) |-> IF k = i THEN q[i + 1] ELSE IF k = i + 1 THEN q[i] ELSE q[k]]

PkgAB == <<"a", "-", "b">>
PkgC == <<"c">>
PackageNames == {PkgAB, PkgC}

ReqChars == {"=", " ", "1", "^"}

RevFull == <<"a", "b", "c", "d", "e", "f", "g", "h">>
RevSeven == <<"a", "b", "c", "d", "e", "f", "g">>
RevShort == <<"a", "b", "c">>
Revisions == {RevFull, RevSeven, RevShort}

File(name, text) == [name |-> name, is_dir |-> FALSE, readable |-> TRUE, text |-> text]
Unreadable(name) == [name |-> name, is_dir |-> FALSE, readable |-> FALSE, text |-> <<>>]
Directory(name) == [name |-> name, is_dir |-> TRUE, readable |-> FALSE, text |-> <<>>]

NameXd == <<"a", "_", "b", "-", "x", ".", "d">>
NameYd == <<"a", "_", "b", "-", "y", ".", "d">>
NameBad == <<"a", "_", "b", "-", "#", ".", "d">>
NameHyphen == <<"a", "-", "b", "-", "x", ".", "d">>
NameLibXso == <<"l", "i", "b", "a", "_", "b", "-", "x", ".", "s", "o">>
NameLibXrlib == <<"l", "i", "b", "a", "_", "b", "-", "x", ".", "r", "l", "i", "b">>
NameLibYrlib == <<"l", "i", "b", "a", "_", "b", "-", "y", ".", "r", "l", "i", "b">>
NameCd == <<"c", "-", "x", ".", "d">>
NameLibCrlib == <<"l", "i", "b", "c", "-", "x", ".", "r", "l", "i", "b">>

TextV1 == <<"/", "a", "-", "b", "-", "1", "/">>
TextV12 == <<"/", "a", "-", "b", "-", "1", "2", "/">>
TextV1Git == <<"/", "a", "-", "b", "-", "1", "/", "a", "b", "c", "d", "e", "f", "g", "/">>
TextGit == <<"/", "a", "-", "b", "/", "a", "b", "c", "d", "e", "f", "g", "/">>
TextC1 == <<"/", "c", "-", "1", "/">>

EntryPool ==
    { File(NameXd, TextV1), File(NameXd, TextGit),
      File(NameYd, TextV12), File(NameYd, TextV1Git),
      Unreadable(NameYd), Directory(NameYd),
      File(NameBad, TextV1), File(NameHyphen, TextV1),
      File(NameLibXso, <<>>), File(NameLibXrlib, <<>>), File(NameLibYrlib, <<>>) }

\* The directories read_dir can yield: no two entries of a directory share a name.
Directories(n) ==
    {q \in SeqsOf(EntryPool, n) : \A i, j \in 1..Len(q) : i # j => q[i].name # q[j].name}

DepV1 == Dep(PkgAB, NoGit, <<"=", "1">>)
DepCaret == Dep(PkgAB, NoGit, <<"^", "1">>)
DepRev == Dep(PkgAB, GitRef("Rev", RevFull), <<"*">>)
DepRevShort == Dep(PkgAB, GitRef("Rev", RevShort), <<"*">>)
DepTag == Dep(PkgAB, GitRef("Tag", <<"v">>), <<"*">>)
DepBranch == Dep(PkgAB, GitRef("Branch", <<"m">>), <<"*">>)
DepC == Dep(PkgC, NoGit, <<"=", " ", "1">>)
DepPool == {DepV1, DepCaret, DepRev, DepRevShort, DepTag, DepBranch, DepC}

\* The Locators construction can produce from DepPool
Locators == {ParseLocator(d).val : d \in {d \in DepPool : ParseLocator(d).tag = "Ok"}}

Dir(entries) == [kind |-> "dir", entries |-> entries]
Missing == [kind |-> "missing", entries |-> <<>>]
NotADir == [kind |-> "file", entries |-> <<>>]

RunDirs ==
    { Missing, NotADir, Dir(<<>>),
      Dir(<<File(NameXd, TextV1), File(NameLibXrlib, <<>>)>>),
      Dir(<<File(NameXd, TextV1)>>),
      Dir(<<File(NameBad, TextV1), File(NameXd, TextV1), File(NameLibXrlib, <<>>)>>),
      Dir(<<File(NameLibYrlib, <<>>), File(NameCd, TextC1), File(NameYd, TextV1Git),
            File(NameLibCrlib, <<>>)>>) }

Fragments ==
    { <<"/", "a", "-", "b">>, <<"-", "1", "/">>, <<"/", "a", "b", "c", "d", "e", "f", "g", "/">>, <<"/", "a", "b", "c", "d", "e", "f">>, <<"/", "a", "b", "c", "/">>, <<"/">>, <<"x">> }

RECURSIVE Concat(_)
Concat(parts) == IF parts = <<>> THEN <<>> ELSE Head(parts) \o Concat(Tail(parts))

Contents == {Concat(parts) : parts \in UNION {[1..k -> Fragments] : k \in 0..MaxFragments}}

-----------------------------------------------------------------------------
(* run and main: the dependencies are parsed in manifest order; collect     *)
(* stops at the first Err, a panic unwinds out of run, and the options are *)
(* printed once every dependency is parsed.                                *)

LastNone == Returned(Idle, <<>>)

RunIdle ==
    /\ manifest = <<>> /\ format = "shell" /\ parsed = <<>>
    /\ run_result = Idle /\ stdout = <<>> /\ fs_log = <<>>

ScanIdle == last = LastNone /\ outcomes = {} /\ calls = 0

FnIdle == package_name = <<>> /\ version_req = <<>> /\ content = <<>> /\ fn_result = Idle

Init ==
    /\ pc = "collect"
    /\ manifest \in UNION {[1..k -> DepPool] : k \in 0..MaxDeps}
    /\ format \in {"shell", "json"}
    /\ deps_path \in RunDirs
    /\ parsed = <<>>
    /\ run_result = Idle
    /\ stdout = <<>>
    /\ fs_log = <<>>
    /\ locator = Idle
    /\ ScanIdle
    /\ FnIdle

NextDep == manifest[Len(parsed) + 1]

RunParseOk ==
    /\ pc = "collect"
    /\ Len(parsed) < Len(manifest)
    /\ LET r == Parse(deps_path, NextDep)
       IN  /\ r.result.tag = "Ok"
           /\ parsed' = Append(parsed, r.result.val)
           /\ fs_log' = r.log
    /\ UNCHANGED <<manifest, format, deps_path, pc, run_result, stdout, locator,
                   last, outcomes, calls, package_name, version_req, content, fn_result>>

\* The Err of a dependency ends run; main hands it to cargo::exit_with_error.
RunParseErr ==
    /\ pc = "collect"
    /\ Len(parsed) < Len(manifest)
    /\ LET r == Parse(deps_path, NextDep)
       IN  /\ r.result.tag = "Err"
           /\ run_result' = r.result
           /\ fs_log' = r.log
    /\ pc' = "exit_error"
    /\ UNCHANGED <<manifest, format, deps_path, parsed, stdout, locator,
                   last, outcomes, calls, package_name, version_req, content, fn_result>>

RunParsePanic ==
    /\ pc = "collect"
    /\ Len(parsed) < Len(manifest)
    /\ LET r == Parse(deps_path, NextDep)
       IN  /\ r.result.tag = "Panic"
           /\ run_result' = r.result
           /\ fs_log' = r.log
    /\ pc' = "panicked"
    /\ UNCHANGED <<manifest, format, deps_path, parsed, stdout, locator,
                   last, outcomes, calls, package_name, version_req, content, fn_result>>

\* Lines 221-235: the rendering of the line (shell escaping, JSON) is the
\* library's; the line is kept as the format and the list of options.
RunPrint ==
    /\ pc = "collect"
    /\ Len(parsed) = Len(manifest)
    /\ stdout' = Append(stdout, [format |-> format, options |-> Options(parsed)])
    /\ run_result' = Ok(<<>>)
    /\ pc' = "done"
    /\ UNCHANGED <<manifest, format, deps_path, parsed, fs_log, locator,
                   last, outcomes, calls, package_name, version_req, content, fn_result>>

Next == RunParseOk \/ RunParseErr \/ RunParsePanic \/ RunPrint

Spec == Init /\ [][Next]_vars

-----------------------------------------------------------------------------
(* find_library_path on its own: a Locator, a directory, and calls of      *)
(* find_library_path between which the order in which read_dir yields the  *)
(* same entries may change (by exchanges of neighbours, which reach every  *)
(* order).                                                                 *)

\* The Locators of the package whose files EntryPool holds
ScanLocators == {l \in Locators : l.package_name = PkgAB}

ScanInit ==
    /\ pc = "scan"
    /\ locator \in ScanLocators
    /\ deps_path \in {Missing, NotADir} \cup {Dir(q) : q \in Directories(MaxEntries)}
    /\ RunIdle
    /\ ScanIdle
    /\ FnIdle

ScanResolve ==
    /\ pc = "scan"
    /\ last = LastNone
    /\ calls < MaxCalls
    /\ last' = FindLibraryPath(locator, deps_path)
    /\ outcomes' = outcomes \cup {last'.result}
    /\ calls' = calls + 1
    /\ UNCHANGED <<manifest, format, deps_path, parsed, pc, run_result, stdout, fs_log,
                   locator, package_name, version_req, content, fn_result>>

ScanReorder ==
    /\ pc = "scan"
    /\ \E i \in 1..(Len(deps_path.entries) - 1) :
        deps_path' = [deps_path EXCEPT !.entries = Swap(deps_path.entries, i)]
    /\ last' = LastNone
    /\ UNCHANGED <<manifest, format, parsed, pc, run_result, stdout, fs_log,
                   locator, outcomes, calls, package_name, version_req, content,
                   fn_result>>

ScanNext == ScanResolve \/ ScanReorder

SpecScan == ScanInit /\ [][ScanNext]_vars

-----------------------------------------------------------------------------
(* parse_normal on its own *)

NormalInit ==
    /\ pc = "normal_call"
    /\ package_name \in PackageNames
    /\ version_req \in Strs(ReqChars, MaxReqLen)
    /\ content = <<>>
    /\ fn_result = Idle
    /\ locator = Idle
    /\ deps_path = Missing
    /\ RunIdle
    /\ ScanIdle

NormalCall ==
    /\ pc = "normal_call"
    /\ fn_result' = ParseNormal(package_name, version_req)
    /\ pc' = "normal_done"
    /\ UNCHANGED <<manifest, format, deps_path, parsed, run_result, stdout, fs_log,
                   locator, last, outcomes, calls, package_name, version_req, content>>

NormalNext == NormalCall

SpecNormal == NormalInit /\ [][NormalNext]_vars

-----------------------------------------------------------------------------------------------------------------------------------------------------
(* search_patterns and matches on their own, on the Locators construction  *)
(* produces                                                                *)

MatchLocators ==
    Locators \cup {ParseGit(n, GitRef("Rev", r)).val : n \in PackageNames, r \in Revisions}

MatchInit ==
    /\ pc = "match_call"
    /\ locator \in MatchLocators
    /\ content \in Contents
    /\ package_name = <<>>
    /\ version_req = <<>>
    /\ fn_result = Idle
    /\ deps_path = Missing
    /\ RunIdle
    /\ ScanIdle

MatchCall ==
    /\ pc = "match_call"
    /\ fn_result' = Matches(locator, content)
    /\ pc' = "match_done"
    /\ UNCHANGED <<manifest, format, deps_path, parsed, run_result, stdout, fs_log,
                   locator, last, outcomes, calls, package_name, version_req, content>>

MatchNext == MatchCall

SpecMatch == MatchInit /\ [][MatchNext]_vars

-----------------------------------------------------------------------------
(* What the claims speak of, stated from their words *)

Entries == deps_path.entries

NameExists(name) == \E i \in 1..Len(Entries) : Entries[i].name = name

\* The symbol name of the locator: its logical name with "-" replaced by "_"
SymbolName == [i \in 1..Len(locator.package_name) |->
                  IF locator.package_name[i] = "-" THEN "_" ELSE locator.package_name[i]]

\* A non-directory entry named {symbol_name}-*.d
IsAuxFile(e) ==
    /\ ~e.is_dir
    /\ \A i \in 1..Len(e.name) : e.name[i] # InvalidByte
    /\ Len(e.name) >= Len(SymbolName) + 3
    /\ SubSeq(e.name, 1, Len(SymbolName) + 1) = SymbolName \o <<"-">>
    /\ SubSeq(e.name, Len(e.name) - 1, Len(e.name)) = <<".", "d">>

\* The first n characters of s (all of s when it has fewer)
FirstChars(s, n) == SubSeq(s, 1, IF Len(s) < n THEN Len(s) ELSE n)

\* The patterns of a locator: /{logical_name}-{version}/, or /{logical_name}
\* and /{first 7 chars of revision}/
StatedPatterns(loc) ==
    IF loc.variant = "Version"
    THEN { <<"/">> \o loc.package_name \o <<"-">> \o loc.version \o <<"/">> }
    ELSE { <<"/">> \o loc.package_name,
           <<"/">> \o FirstChars(loc.revision, 7) \o <<"/">> }

HasEveryPattern(loc, text) == \A pat \in StatedPatterns(loc) : Contains(text, pat)

\* An auxiliary file whose contents are evidence of the locator's identity
IsEvidence(e) == IsAuxFile(e) /\ e.readable /\ HasEveryPattern(locator, e.text)

\* An auxiliary file on which the match test of the code returns true
IsMatched(e) == IsAuxFile(e) /\ e.readable /\ Matches(locator, e.text) = Ok(TRUE)

\* lib + the name of e, with its .d replaced by ext
ArtifactName(e, ext) == <<"l", "i", "b">> \o SubSeq(e.name, 1, Len(e.name) - 1) \o ext

ExtSo == <<"s", "o">>
ExtRlib == <<"r", "l", "i", "b">>

\* The artifact of e that the ordered list of extensions selects
PreferredArtifact(e) ==
    IF NameExists(ArtifactName(e, ExtSo)) THEN ArtifactName(e, ExtSo) ELSE ArtifactName(e, ExtRlib)

HasArtifact(e) == NameExists(ArtifactName(e, ExtSo)) \/ NameExists(ArtifactName(e, ExtRlib))

\* An entry at which the scan ends without a match: a file whose name cannot
\* be decoded, a candidate that cannot be read, a candidate on which the match
\* test aborts
IsUndecodable(e) == ~e.is_dir /\ \E i \in 1..Len(e.name) : e.name[i] = InvalidByte
IsUnreadable(e) == IsAuxFile(e) /\ ~e.readable
IsAborting(e) == IsAuxFile(e) /\ e.readable /\ Matches(locator, e.text).tag = "Panic"
CutsShort(e) == IsUndecodable(e) \/ IsUnreadable(e) \/ IsAborting(e)

\* An entry at which the scan ends
EndsScan(e) == CutsShort(e) \/ IsMatched(e)

Called == last.result.tag # "Idle"

\* The number of entries whose file type the call looked at
Enumerated == Cardinality({i \in 1..Len(last.log) : last.log[i].op = "file_type"})

ErrNamed(name) == Err([kind |-> "failed to find appropriate path for", name |-> name])

-----------------------------------------------------------------------------
(* C1.  Soundness of find_library_path: a returned path is lib + the name  *)
(* of a non-directory entry named {symbol_name}-*.d whose contents contain *)
(* every search pattern of the locator, with .d replaced by so or rlib, and *)
(* the returned file exists; it is never derived from a candidate whose    *)
(* contents do not match.                                                  *)
C1_Soundness ==
    (pc = "scan" /\ last.result.tag = "Ok") =>
        /\ last.result.val.parent = DepsDir
        /\ NameExists(last.result.val.file_name)
        /\ \E i \in 1..Len(Entries) :
              /\ IsEvidence(Entries[i])
              /\ last.result.val.file_name \in
                    {ArtifactName(Entries[i], ExtSo), ArtifactName(Entries[i], ExtRlib)}

\* A path is returned from a directory that also holds an auxiliary file of
\* the same symbol name whose contents do not match.
C1_Witness ==
    /\ pc = "scan" /\ last.result.tag = "Ok"
    /\ \E i \in 1..Len(Entries) :
          /\ IsAuxFile(Entries[i]) /\ Entries[i].readable
          /\ ~HasEveryPattern(locator, Entries[i].text)

(* C2, as stated.  Completeness of find_library_path: when the directory   *)
(* holds exactly one auxiliary file whose contents match the locator and    *)
(* its sibling artifact exists, the call returns that artifact, whatever    *)
(* the other entries and the order.                                         *)
C2_AsStated ==
    \A i \in 1..Len(Entries) :
        ( /\ pc = "scan" /\ Called /\ deps_path.kind = "dir"
          /\ IsEvidence(Entries[i]) /\ HasArtifact(Entries[i])
          /\ \A j \in 1..Len(Entries) : IsEvidence(Entries[j]) => j = i )
        => /\ last.result.tag = "Ok"
           /\ last.result.val.file_name \in
                 {ArtifactName(Entries[i], ExtSo), ArtifactName(Entries[i], ExtRlib)}

(* C2, amended.  When the directory holds exactly one auxiliary file on     *)
(* which the match test returns true, its sibling .so or .rlib exists, and *)
(* no entry enumerated before it is a file with an undecodable name or an   *)
(* unreadable candidate, the call returns that file's artifact (the .so if  *)
(* it exists, else the .rlib), whatever the other entries.  For a revision  *)
(* shorter than 7 characters the match test returns true on no file, and    *)
(* no call returns a path.                                                  *)
C2_Completeness ==
    /\ \A i \in 1..Len(Entries) :
        ( /\ pc = "scan" /\ Called /\ deps_path.kind = "dir"
          /\ IsMatched(Entries[i]) /\ HasArtifact(Entries[i])
          /\ \A j \in 1..Len(Entries) : IsMatched(Entries[j]) => j = i
          /\ \A j \in 1..(i - 1) : ~CutsShort(Entries[j]) )
        => last.result = Ok(Path(DepsDir, PreferredArtifact(Entries[i])))
    /\ ( /\ pc = "scan" /\ Called
         /\ locator.variant = "Git" /\ Len(locator.revision) < 7 )
        => last.result.tag # "Ok"

\* The one matched file is found after other entries, among them another
\* candidate that does not match.
C2_Witness ==
    /\ pc = "scan" /\ last.result.tag = "Ok" /\ Len(Entries) = 3
    /\ IsMatched(Entries[3]) /\ HasArtifact(Entries[3])
    /\ \A j \in 1..2 : ~IsMatched(Entries[j])
    /\ \E j \in 1..2 : IsAuxFile(Entries[j])

(* C3.  Extension priority on a matched candidate: with both the .so and   *)
(* the .rlib of its stem present the .so is returned, with only the .rlib   *)
(* the .rlib is; the .rlib is never returned while the .so exists.          *)
C3_ExtensionPriority ==
    (pc = "scan" /\ last.result.tag = "Ok") =>
        \E i \in 1..Len(Entries) :
            /\ IsMatched(Entries[i])
            /\ last.result.val.file_name = PreferredArtifact(Entries[i])
            /\ ( last.result.val.file_name = ArtifactName(Entries[i], ExtRlib)
                 => ~NameExists(ArtifactName(Entries[i], ExtSo)) )

\* Both artifacts of the matched candidate exist.
C3_Witness ==
    /\ pc = "scan" /\ last.result.tag = "Ok"
    /\ \E i \in 1..Len(Entries) :
          /\ IsMatched(Entries[i])
          /\ NameExists(ArtifactName(Entries[i], ExtSo))
          /\ NameExists(ArtifactName(Entries[i], ExtRlib))

(* C4, as stated.  When the output directory exists and no candidate's     *)
(* contents match the locator, find_library_path enumerates the whole       *)
(* directory and then fails with an error value that names the logical      *)
(* (hyphenated) package name; it returns no path and does not abort.        *)
C4_AsStated ==
    ( /\ pc = "scan" /\ Called /\ deps_path.kind = "dir"
      /\ \A i \in 1..Len(Entries) : ~IsEvidence(Entries[i]) )
    => /\ last.result = ErrNamed(locator.package_name)
       /\ Enumerated = Len(Entries)

(* C4, amended.  When the output directory exists and the match test       *)
(* returns true on no candidate, find_library_path returns no path.  If no *)
(* entry cuts the scan short (a file with an undecodable name, an           *)
(* unreadable candidate, a candidate on which the match test aborts), it    *)
(* enumerates the whole directory and then fails with the error that names  *)
(* the logical package name.  Otherwise it ends at the first such entry:    *)
(* with another error value, or, only for a revision shorter than 7         *)
(* characters, by aborting.                                                 *)
C4_NoMatch ==
    ( /\ pc = "scan" /\ Called /\ deps_path.kind = "dir"
      /\ \A i \in 1..Len(Entries) : ~IsMatched(Entries[i]) )
    => /\ last.result.tag # "Ok"
       /\ (\A i \in 1..Len(Entries) : ~CutsShort(Entries[i]))
            => /\ last.result = ErrNamed(locator.package_name)
               /\ Enumerated = Len(Entries)
       /\ (\E i \in 1..Len(Entries) : CutsShort(Entries[i]))
            => /\ last.result # ErrNamed(locator.package_name)
               /\ Enumerated < Len(Entries) \/ CutsShort(Entries[Len(Entries)])
       /\ last.result.tag = "Panic"
            => (locator.variant = "Git" /\ Len(locator.revision) < 7)

\* The scan passes a candidate that does not match and a directory, and
\* fails with the error naming the hyphenated package name.
C4_Witness ==
    /\ pc = "scan" /\ Called /\ deps_path.kind = "dir"
    /\ last.result = ErrNamed(<<"a", "-", "b">>)
    /\ Enumerated = 3
    /\ \E i \in 1..Len(Entries) : IsAuxFile(Entries[i]) /\ Entries[i].readable
    /\ \E i \in 1..Len(Entries) : Entries[i].is_dir

(* C8, as stated.  Any two calls of find_library_path with the same        *)
(* locator on the same entries have the same outcome, whatever the order   *)
(* in which the directory is enumerated.                                    *)
C8_AsStated == pc = "scan" => Cardinality(outcomes) <= 1

(* C8, amended.  The outcome of find_library_path is a function of the     *)
(* locator, the entries and the order in which they are enumerated: it is   *)
(* decided by the first entry at which the scan ends (a matching candidate, *)
(* a file with an undecodable name, an unreadable candidate, a candidate on *)
(* which the match test aborts).  When at most one entry of the directory   *)
(* ends the scan, any two calls have the same outcome, whatever the order.  *)
C8_OrderIndependence ==
    ( /\ pc = "scan"
      /\ Cardinality({i \in 1..Len(Entries) : EndsScan(Entries[i])}) <= 1 )
    => Cardinality(outcomes) <= 1

\* Two calls, in two orders, of a directory of several entries one of which
\* ends the scan.
C8_Witness ==
    /\ pc = "scan" /\ calls >= 2 /\ Len(Entries) >= 2
    /\ Cardinality({i \in 1..Len(Entries) : EndsScan(Entries[i])}) = 1
    /\ Cardinality(outcomes) = 1

\* The errors of identity construction
IsIdentityFailure(r) ==
    \/ r = Err([kind |-> "use exact match version requirement"])
    \/ r = Panic("Tagged git source is not supported.")
    \/ r = Panic("Branch git source is not supported.")

\* The identity of a dependency is malformed or of an unsupported kind
IsRejectedIdentity(dep) ==
    \/ dep.git_ref.kind \in {"Tag", "Branch"}
    \/ dep.git_ref.kind = "None" /\ (dep.version_req = <<>> \/ dep.version_req[1] # "=")

(* C5, as stated.  In Dependency::parse, a malformed version requirement   *)
(* and an unsupported reference kind (tag, branch) are reported before any  *)
(* filesystem access: no existence check, directory listing or file read    *)
(* precedes the identity error.                                             *)
C5_AsStated ==
    (pc \in {"exit_error", "panicked"} /\ IsIdentityFailure(run_result)) => fs_log = <<>>

(* C5, amended.  In Dependency::parse the existence check of the output    *)
(* directory comes first.  A malformed version requirement and an           *)
(* unsupported reference kind are reported after that check and before any  *)
(* directory listing or file read, when the directory exists; when it does  *)
(* not, the missing-directory error is reported in their place.             *)
C5_IdentityAfterExistenceCheck ==
    ( /\ pc \in {"exit_error", "panicked"}
      /\ IsRejectedIdentity(manifest[Len(parsed) + 1]) )
    => /\ fs_log = <<[op |-> "exists", name |-> <<>>]>>
       /\ IF deps_path.kind = "missing"
          THEN run_result = Err([kind |-> "dependencies path is not exist."])
          ELSE IsIdentityFailure(run_result)

\* An identity error reported for the second dependency of a manifest.
C5_Witness ==
    /\ pc \in {"exit_error", "panicked"}
    /\ IsIdentityFailure(run_result)
    /\ Len(parsed) = 1

IsSpace(c) == c \in {" ", "\t", "\n"}

\* v is rest without its leading and trailing whitespace
IsTrimmed(v, rest) ==
    \E i, j \in 0..Len(rest) :
        /\ i + j <= Len(rest)
        /\ v = SubSeq(rest, i + 1, Len(rest) - j)
        /\ \A k \in 1..i : IsSpace(rest[k])
        /\ \A k \in (Len(rest) - j + 1)..Len(rest) : IsSpace(rest[k])
        /\ v # <<>> => (~IsSpace(v[1]) /\ ~IsSpace(v[Len(v)]))

(* C6.  parse_normal: a requirement that does not start with "=" fails     *)
(* with an error and yields no Locator; one that starts with "=" yields     *)
(* the Version locator of the same package name whose version is the rest   *)
(* after the "=" without its surrounding whitespace.                        *)
C6_ParseNormal ==
    pc = "normal_done" =>
        IF version_req = <<>> \/ version_req[1] # "="
        THEN fn_result.tag = "Err"
        ELSE /\ fn_result.tag = "Ok"
             /\ fn_result.val.variant = "Version"
             /\ fn_result.val.package_name = package_name
             /\ IsTrimmed(fn_result.val.version, SubSeq(version_req, 2, Len(version_req)))

\* A requirement with whitespace on both sides of the version.
C6_Witness ==
    /\ pc = "normal_done"
    /\ version_req = <<"=", " ", "1", " ">>
    /\ fn_result.tag = "Ok"
    /\ fn_result.val.version = <<"1">>

(* C7.  matches(contents) is true iff every pattern of the locator is a    *)
(* substring of contents: /{logical_name}-{version}/ for an Exact-Version   *)
(* locator, /{logical_name} and /{first 7 chars of revision}/ for a         *)
(* Revision locator.                                                        *)
C7_Matches ==
    pc = "match_done" => fn_result = Ok(HasEveryPattern(locator, content))

\* C7 restricted to the locators on which search_patterns returns: Version
\* locators and revisions of at least 7 characters.
C7_MatchesFullRevision ==
    (pc = "match_done" /\ (locator.variant = "Git" => Len(locator.revision) >= 7))
        => fn_result = Ok(HasEveryPattern(locator, content))

\* The options expected of a manifest whose dependencies all resolve
Underscored(name) == [i \in 1..Len(name) |-> IF name[i] = "-" THEN "_" ELSE name[i]]

Resolution(k) == Parse(deps_path, manifest[k]).result

ExternPair(k) ==
    << <<"-", "-", "e", "x", "t", "e", "r", "n">>,
       Underscored(manifest[k].package_name) \o <<"=">> \o DepsDir \o <<"/">>
           \o Resolution(k).val.library_path.file_name >>

RECURSIVE ExternPairs(_)
ExternPairs(k) == IF k = 0 THEN <<>> ELSE ExternPairs(k - 1) \o ExternPair(k)

(* C9.  run is all-or-nothing: the dependencies are resolved in manifest   *)
(* order; when one fails the run ends with that failure and nothing is      *)
(* printed; when all N succeed exactly one output is printed, the N pairs   *)
(* (--extern, {symbol_name}={artifact_path}) in dependency order and then   *)
(* the pair (-L, dependency={output directory}).                            *)
C9_AllOrNothing ==
    /\ pc = "collect" => stdout = <<>>
    /\ pc \in {"exit_error", "panicked"} =>
          /\ stdout = <<>>
          /\ Len(parsed) < Len(manifest)
          /\ \A k \in 1..Len(parsed) : Resolution(k).tag = "Ok"
          /\ Resolution(Len(parsed) + 1).tag # "Ok"
          /\ run_result = Resolution(Len(parsed) + 1)
    /\ pc = "done" =>
          /\ \A k \in 1..Len(manifest) : Resolution(k).tag = "Ok"
          /\ Len(stdout) = 1
          /\ stdout[1].format = format
          /\ stdout[1].options =
                ExternPairs(Len(manifest))
                    \o << <<"-", "L">>,
                          <<"d", "e", "p", "e", "n", "d", "e", "n", "c", "y", "=">> \o DepsDir >>

\* Two dependencies of different packages are resolved and printed.
C9_Witness ==
    /\ pc = "done" /\ Len(manifest) = 2 /\ Len(stdout) = 1
    /\ manifest[1].package_name # manifest[2].package_name

(* C10.  search_patterns and matches are total on every Locator that       *)
(* construction produces: on every Revision locator parse_git accepts, also *)
(* one whose revision has fewer than 7 characters, matches returns a        *)
(* boolean without aborting.                                                *)
C10_MatchesTotal ==
    (pc = "match_done" /\ locator.variant = "Git") =>
        (fn_result.tag = "Ok" /\ fn_result.val \in BOOLEAN)

====
